---- MODULE Spec2Model ----
(***************************************************************************)
(* Two-phase BFS enactor (b40c/graph/bfs/enactor_two_phase.cuh).           *)
(*                                                                         *)
(* One control thread (the caller, running Setup / EnactIterativeSearch /  *)
(* EnactFusedSearch / GetStatistics) and one device that executes the      *)
(* dispatches of the default stream in issue order.  The control thread    *)
(* and the device share the host-mapped words done[0] and iteration[0].    *)
(*                                                                         *)
(* The traversal kernels, the work-progress service, the statistics and    *)
(* barrier lifetimes and the base enactor are not part of the two source   *)
(* files; they are modelled from their stated contracts.                   *)
(***************************************************************************)
EXTENDS Integers, Sequences, FiniteSets, TLC

\* ---------------------------------------------------------------- bounds
MaxNodes == 3        \* vertices of the graph problem
MaxEdges == 2        \* directed edges of the graph problem (self loops allowed)
MaxCalls == 2        \* searches invoked on one enactor
MaxFaults == 1       \* resource operations that fail in one behaviour
MaxPending == 12     \* depth of the device launch queue (a full queue blocks the host)
SmCount == 1         \* multiprocessors of the device

\* ------------------------------------------------------ program constants
CTA_OCCUPANCY == 8
MinSmVersion == 200
Unvisited == -1

Nodes == 0 .. (MaxNodes - 1)
AllEdges == Nodes \X Nodes
Graphs == {g \in SUBSET AllEdges : Cardinality(g) <= MaxEdges}
SmVersions == {130, 200}
\* Levels at or above MaxLevel are collapsed into one; no throttled search
\* on a graph of MaxNodes vertices gets that far.
MaxLevel == MaxNodes + 3
ResidentLimit == CTA_OCCUPANCY * SmCount
GridRequests == {0, 1, ResidentLimit + 1}

VARIABLES
    \* the graph problem (one graph slice)
    graph, src, labels, visited_mask, vertex_frontier, edge_frontier,
    \* the enactor: template / constructor parameters and device properties
    INSTRUMENT, DEBUG, device_sm_version,
    \* the enactor: handshake state (pointers as "is it non-NULL / valid")
    done, d_done, throttle_event, iteration, d_iteration,
    \* the enactor: the mapped words and the totals
    done0, iteration0, total_runtimes, total_lifetimes, total_queued,
    \* the control thread
    pc, retval, queue_index, mode,
    \* the device
    stream, fk,
    \* what the caller has read back
    stats, observed,
    \* history
    calls, faults, clean, failed_op, setup_ok, setup_failed, alloc_count, prior_ok,
    \* BuildRandomGraph: arguments, locals, result
    nodes, edges, undirected, src_arg, build_src, coo, csr_graph, build_pc,
    build_retval

problemVars == <<graph, src, labels, visited_mask, vertex_frontier, edge_frontier>>
configVars == <<INSTRUMENT, DEBUG, device_sm_version>>
handshakeVars == <<done, d_done, throttle_event, iteration, d_iteration>>
wordVars == <<done0, iteration0>>
totalVars == <<total_runtimes, total_lifetimes, total_queued>>
controlVars == <<pc, retval, queue_index, mode>>
deviceVars == <<stream, fk>>
readVars == <<stats, observed>>
historyVars == <<calls, faults, clean, failed_op, setup_ok, setup_failed, alloc_count, prior_ok>>
builderVars == <<nodes, edges, undirected, src_arg, build_src, coo, csr_graph, build_pc,
                 build_retval>>
vars == <<problemVars, configVars, builderVars, handshakeVars, wordVars, totalVars, controlVars,
          deviceVars, readVars, historyVars>>

\* ------------------------------------------------------------ the graph
Neighbors(u) == {v \in Nodes : <<u, v>> \in graph}

NoLabels == [v \in Nodes |-> Unvisited]

\* ----------------------------------------------------------- dispatches
Dispatch(kind, it, qi, flag, g) ==
    [kind |-> kind, src |-> src, iteration |-> it, queue_index |-> qi,
     flag |-> flag, grid_size |-> g]

EventMarker == Dispatch("event", 0, 0, FALSE, 0)
ResetDispatch == Dispatch("reset", 0, 0, FALSE, 0)

NoFused == [phase |-> "none", iteration |-> 0, todo |-> {}, arrived |-> 0]

RECURSIVE DropEvents(_)
DropEvents(s) ==
    IF s # <<>> /\ Head(s).kind = "event" THEN DropEvents(Tail(s)) ELSE s

\* The stream once its head dispatch has completed: recorded events that
\* follow it complete with it.
Pop(s) == DropEvents(Tail(s))

HeadIs(kind) == stream # <<>> /\ Head(stream).kind = kind

Drained == stream = <<>>

EventPending == \E i \in 1 .. Len(stream) : stream[i].kind = "event"

FusedOutstanding == \E i \in 1 .. Len(stream) : stream[i].kind = "fused"

QueueHasRoom == Len(stream) < MaxPending

\* ------------------------------------------------------------- base enactor
\* EnactorBase::MaxGridSize: the caller's cap when one is given, otherwise
\* the device's full occupancy.
MaxGridSize(cta_occupancy, max_grid_size) ==
    IF max_grid_size <= 0 THEN SmCount * cta_occupancy ELSE max_grid_size

\* The tuning-policy selection of both public entry points.
IsTunedFrom130(sm_version) == sm_version >= 130

IsTuned(sm_version) == sm_version >= MinSmVersion

\* -------------------------------------------------------------------- Setup
\* The resource operations of Setup in program order; NoFailure is past the
\* last one.
SetupOrder ==
    <<"cudaHostAlloc done", "cudaHostGetDevicePointer done",
      "cudaEventCreateWithFlags throttle_event", "cudaHostAlloc iteration",
      "cudaHostGetDevicePointer iteration", "global_barrier.Setup",
      "expand_kernel_stats.Setup", "contract_kernel_stats.Setup",
      "cudaBindTexture bitmask", "cudaBindTexture row_offsets">>
NoFailure == Len(SetupOrder) + 1
SetupOutcomes == 1 .. NoFailure

\* Setup with its f-th operation failing executes that operation: the first
\* three only while done is NULL, the next two only while iteration is NULL.
SetupRuns(f) ==
    /\ (f \in 1 .. 3 => ~done)
    /\ (f \in 4 .. 5 => ~iteration)

\* The statements of lines 159-163 come after the first eight operations.
ResetReached(f) == f > 8

DoneAfterSetupOnce(f) == IF ResetReached(f) /\ ~done THEN 0 ELSE done0

DoneAfterSetup(f) == IF ResetReached(f) THEN 0 ELSE done0
IterationAfterSetup(f) == IF ResetReached(f) THEN 0 ELSE iteration0
TotalAfterSetup(f, total) == IF ResetReached(f) THEN 0 ELSE total

EventAfterSetup(f) == IF ~done /\ f > 3 THEN "created" ELSE throttle_event

SetupRetval(f) == IF f = NoFailure THEN "Success" ELSE SetupOrder[f]

Setup(f) ==
    /\ done' = (done \/ f > 1)
    /\ d_done' = (d_done \/ (~done /\ f > 2))
    /\ throttle_event' = EventAfterSetup(f)
    /\ iteration' = (iteration \/ f > 4)
    /\ d_iteration' = (d_iteration \/ (~iteration /\ f > 5))
    /\ iteration0' = IterationAfterSetup(f)
    /\ total_runtimes' = TotalAfterSetup(f, total_runtimes)
    /\ total_lifetimes' = TotalAfterSetup(f, total_lifetimes)
    /\ total_queued' = TotalAfterSetup(f, total_queued)
    /\ done0' = DoneAfterSetup(f)
    /\ alloc_count' =
          [done |-> alloc_count.done + (IF ~done /\ f > 1 THEN 1 ELSE 0),
           iteration |-> alloc_count.iteration + (IF ~iteration /\ f > 4 THEN 1 ELSE 0),
           event |-> alloc_count.event + (IF ~done /\ f > 3 THEN 1 ELSE 0)]
    /\ setup_ok' = (f = NoFailure)
    /\ setup_failed' = (setup_failed \/ f # NoFailure)
    /\ faults' = faults + (IF f = NoFailure THEN 0 ELSE 1)

\* ------------------------------------------------------------ the kernels
\* Contract at level 0 takes the source; later levels take the targets of
\* the edge frontier.
\* The two key queues of the frontier: frontier_queues.d_keys[0] holds the
\* vertex frontier, frontier_queues.d_keys[1] the edge frontier.
d_keys(i) == IF i = 0 THEN vertex_frontier ELSE edge_frontier

\* Lines 432-433: the contraction reads d_keys[1] and writes d_keys[0].
ContractKeys == [in |-> 1, out |-> 0]

ExpandKeysInPlace == [in |-> 0, out |-> 0]

\* Lines 474-475: the expansion reads d_keys[0] and writes d_keys[1].
ExpandKeys == [in |-> 0, out |-> 1]

\* Queue i after a kernel given the queues keys has written out.
KeysAfter(keys, i, out) == IF keys.out = i THEN out ELSE d_keys(i)

ContractInput(it) == IF it = 0 THEN {src} ELSE {e[2] : e \in d_keys(ContractKeys.in)}

\* One element of the contract phase: culled when visited, otherwise
\* labelled with the level, marked and queued.
Discovered(candidates) == {v \in candidates : v \notin visited_mask}

Relabel(new, it) == [v \in Nodes |-> IF v \in new THEN it ELSE labels[v]]

ExpandOutput(frontier) == {e \in graph : e[1] \in frontier}

\* The completion flag is written through d_done as the kernel was given it.
SignalDone(k, output) == IF output = {} /\ k.flag THEN 1 ELSE done0

\* Cycle counts one dispatch adds to the runtime statistics.
BusyCycles == 1
ElapsedCycles == 2

\* A running total after one more dispatch; the totals of collapsed levels
\* are collapsed with them.
Accumulate(total, amount) == IF iteration0 < MaxLevel THEN total + amount ELSE total

\* --------------------------------------------------------------- history
NoStats == [taken |-> FALSE, total_queued |-> 0, search_depth |-> 0, avg_duty |-> <<0, 1>>]

Return(rv, op) ==
    /\ pc' = "idle"
    /\ retval' = rv
    /\ failed_op' = IF op = "none" THEN failed_op ELSE op

CanFail == faults < MaxFaults

\* ------------------------------------------------------------------ Init
\* No graph is being built while the enactor runs.
NoCsrGraph == [nodes |-> 0, edges |-> {}, allocated |-> FALSE]

BuildIdle ==
    /\ nodes = 0 /\ edges = 0 /\ undirected = FALSE
    /\ src_arg = 0 /\ build_src = 0
    /\ coo = <<>> /\ csr_graph = NoCsrGraph
    /\ build_pc = "none" /\ build_retval = 0

Init ==
    /\ BuildIdle
    /\ graph \in Graphs
    /\ src \in Nodes
    /\ labels = NoLabels
    /\ visited_mask = {}
    /\ vertex_frontier = {}
    /\ edge_frontier = {}
    /\ INSTRUMENT \in BOOLEAN
    /\ DEBUG \in BOOLEAN
    /\ device_sm_version \in SmVersions
    /\ done = FALSE
    /\ d_done = FALSE
    /\ throttle_event = "uncreated"
    /\ iteration = FALSE
    /\ d_iteration = FALSE
    /\ done0 = 0
    /\ iteration0 = 0
    /\ total_runtimes = 0
    /\ total_lifetimes = 0
    /\ total_queued = 0
    /\ pc = "idle"
    /\ retval = "Success"
    /\ queue_index = 0
    /\ mode = "none"
    /\ stream = <<>>
    /\ fk = NoFused
    /\ stats = NoStats
    /\ observed = {}
    /\ calls = 0
    /\ faults = 0
    /\ clean = TRUE
    /\ failed_op = "none"
    /\ setup_ok = FALSE
    /\ setup_failed = FALSE
    /\ alloc_count = [done |-> 0, iteration |-> 0, event |-> 0]
    /\ prior_ok = FALSE

\* ------------------------------------------------------------ the caller
\* The caller may start a search on a problem it has reset, once the
\* previous search is complete: an iterative search when it has returned,
\* a fused search when its kernel has finished.
MayCall == pc = "idle" /\ clean /\ calls < MaxCalls /\ ~FusedOutstanding

CallHistory(kind) ==
    /\ calls' = calls + 1
    /\ mode' = kind
    /\ prior_ok' = (mode = "iterative" /\ retval = "Success" /\ calls > 0)
    /\ stats' = NoStats

\* An entry point on a device the enactor is not tuned for.
NotTuned(kind) ==
    /\ ~IsTuned(device_sm_version)
    /\ CallHistory(kind)
    /\ pc' = "idle"
    /\ retval' = "InvalidConfiguration"
    /\ failed_op' = "none"
    /\ UNCHANGED <<problemVars, configVars, builderVars, handshakeVars, wordVars, totalVars,
                   queue_index, deviceVars, observed, faults, clean, setup_ok,
                   setup_failed, alloc_count>>

\* The problem's Reset: labels and visited mask are cleared in stream order.
ResetProblem ==
    /\ pc = "idle"
    /\ ~clean
    /\ ~FusedOutstanding
    /\ QueueHasRoom
    /\ stream' = Append(stream, ResetDispatch)
    /\ clean' = TRUE
    /\ stats' = NoStats
    /\ UNCHANGED <<problemVars, configVars, builderVars, handshakeVars, wordVars, totalVars,
                   controlVars, fk, observed, calls, faults, failed_op, setup_ok,
                   setup_failed, alloc_count, prior_ok>>

\* ------------------------------------------------- EnactIterativeSearch
AfterContract == IF INSTRUMENT THEN "c_stats" ELSE "throttle"
AfterExpand == IF INSTRUMENT THEN "e_stats" ELSE "contract"

EnactIterativeSearch ==
    /\ MayCall
    /\ \E max_grid_size \in GridRequests :
        \/ NotTuned("iterative")
        \/ /\ IsTuned(device_sm_version)
           /\ CallHistory("iterative")
           /\ \E f \in SetupOutcomes :
                /\ SetupRuns(f)
                /\ f # NoFailure => CanFail
                /\ Setup(f)
                /\ retval' = SetupRetval(f)
                /\ failed_op' = IF f = NoFailure THEN "none" ELSE SetupOrder[f]
                /\ pc' = IF f = NoFailure THEN "contract" ELSE "idle"
                /\ queue_index' = IF f = NoFailure THEN 0 ELSE queue_index
           /\ UNCHANGED <<problemVars, configVars, builderVars, deviceVars, observed, clean>>

ContractDispatchQueueIndex == Dispatch("contract", queue_index, queue_index, d_done, 0)

ContractDispatch == Dispatch("contract", iteration0, queue_index, d_done, 0)
ExpandDispatch == Dispatch("expand", iteration0, queue_index, d_done, 0)

QueueIndexAfterContract == queue_index + 1
QueueIndexAfterExpandKept == queue_index

QueueIndexAfterExpand == IF iteration0 < MaxLevel THEN queue_index + 1 ELSE queue_index - 1
IterationAfterExpandKept == iteration0

IterationAfterExpand == IF iteration0 < MaxLevel THEN iteration0 + 1 ELSE iteration0

\* Lines 422-443: the contraction dispatch.
IssueContract ==
    /\ pc = "contract"
    /\ QueueHasRoom
    /\ stream' = Append(stream, ContractDispatch)
    /\ clean' = FALSE
    /\ IF DEBUG
         THEN pc' = "c_sync" /\ UNCHANGED queue_index
         ELSE pc' = AfterContract /\ queue_index' = QueueIndexAfterContract
    /\ UNCHANGED <<problemVars, configVars, builderVars, handshakeVars, wordVars, totalVars,
                   retval, mode, fk, readVars, calls, faults, failed_op, setup_ok,
                   setup_failed, alloc_count, prior_ok>>

\* Line 441: the debug synchronization after the contraction dispatch.
ContractSync ==
    /\ pc = "c_sync"
    /\ \/ /\ Drained
          /\ pc' = AfterContract
          /\ queue_index' = QueueIndexAfterContract
          /\ UNCHANGED <<retval, failed_op, faults>>
       \/ /\ CanFail
          /\ faults' = faults + 1
          /\ Return("cudaThreadSynchronize", "cudaThreadSynchronize")
          /\ UNCHANGED queue_index
    /\ UNCHANGED <<problemVars, configVars, builderVars, handshakeVars, wordVars, totalVars,
                   mode, deviceVars, readVars, calls, clean, setup_ok,
                   setup_failed, alloc_count, prior_ok>>

\* Lines 445-455: queue length and duty statistics of the contraction.
ContractStats ==
    /\ pc = "c_stats"
    /\ \/ /\ Drained
          /\ pc' = "throttle"
          /\ total_runtimes' = Accumulate(total_runtimes, BusyCycles)
          /\ total_lifetimes' = Accumulate(total_lifetimes, ElapsedCycles)
          /\ UNCHANGED <<retval, failed_op, faults>>
       \/ /\ CanFail
          /\ faults' = faults + 1
          /\ \E op \in {"GetQueueLength", "contract_kernel_stats.Accumulate"} :
                Return(op, op)
          /\ UNCHANGED <<total_runtimes, total_lifetimes>>
    /\ UNCHANGED <<problemVars, configVars, builderVars, handshakeVars, wordVars, total_queued,
                   queue_index, mode, deviceVars, readVars, calls, clean, setup_ok,
                   setup_failed, alloc_count, prior_ok>>

\* The level whose parity picks the throttle branch; collapsed levels have
\* either parity.
ThrottleRecords == IF iteration0 < MaxLevel THEN {iteration0 % 2 = 1} ELSE BOOLEAN

\* The value the control thread acts on at line 465.
DoneNeverObserved == FALSE

DoneObserved == done0 # 0

\* Lines 457-465: the throttle and the completion check.  An event that was
\* never created is an indeterminate handle: the call on it fails or has no
\* effect.
Throttle ==
    /\ pc = "throttle"
    /\ \E record \in ThrottleRecords :
        \/ /\ throttle_event = "created"
           /\ IF record
                THEN /\ QueueHasRoom
                     /\ stream' = IF Drained THEN stream ELSE Append(stream, EventMarker)
                ELSE /\ ~EventPending
                     /\ UNCHANGED stream
           /\ IF DoneObserved THEN Return(retval, "none") ELSE pc' = "expand" /\ UNCHANGED <<retval, failed_op>>
           /\ UNCHANGED faults
        \/ /\ throttle_event = "uncreated"
           /\ UNCHANGED <<stream, faults>>
           /\ \/ IF DoneObserved THEN Return(retval, "none") ELSE pc' = "expand" /\ UNCHANGED <<retval, failed_op>>
              \/ Return(IF record THEN "cudaEventRecord" ELSE "cudaEventSynchronize",
                        IF record THEN "cudaEventRecord" ELSE "cudaEventSynchronize")
        \/ /\ CanFail
           /\ faults' = faults + 1
           /\ Return(IF record THEN "cudaEventRecord" ELSE "cudaEventSynchronize",
                     IF record THEN "cudaEventRecord" ELSE "cudaEventSynchronize")
           /\ UNCHANGED stream
    /\ UNCHANGED <<problemVars, configVars, builderVars, handshakeVars, wordVars, totalVars,
                   queue_index, mode, fk, readVars, calls, clean, setup_ok,
                   setup_failed, alloc_count, prior_ok>>

\* Lines 467-486: the expansion dispatch and the advance.
IssueExpand ==
    /\ pc = "expand"
    /\ QueueHasRoom
    /\ stream' = Append(stream, ExpandDispatch)
    /\ IF DEBUG
         THEN pc' = "e_sync" /\ UNCHANGED <<queue_index, iteration0>>
         ELSE /\ pc' = AfterExpand
              /\ queue_index' = QueueIndexAfterExpand
              /\ iteration0' = IterationAfterExpand
    /\ UNCHANGED <<problemVars, configVars, builderVars, handshakeVars, done0, totalVars,
                   retval, mode, fk, readVars, historyVars>>

\* Line 483: the debug synchronization after the expansion dispatch.
ExpandSync ==
    /\ pc = "e_sync"
    /\ \/ /\ Drained
          /\ pc' = AfterExpand
          /\ queue_index' = QueueIndexAfterExpand
          /\ iteration0' = IterationAfterExpand
          /\ UNCHANGED <<retval, failed_op, faults>>
       \/ /\ CanFail
          /\ faults' = faults + 1
          /\ Return("cudaThreadSynchronize", "cudaThreadSynchronize")
          /\ UNCHANGED <<queue_index, iteration0>>
    /\ UNCHANGED <<problemVars, configVars, builderVars, handshakeVars, done0, totalVars,
                   mode, deviceVars, readVars, calls, clean, setup_ok,
                   setup_failed, alloc_count, prior_ok>>

\* What the loop returns when the expansion's queue-length fetch fails
\* (line 490: the status of the fetch is tested, not kept).
RetvalOnExpandQueueLength == retval

\* Lines 488-499: queue length and duty statistics of the expansion.
ExpandStats ==
    /\ pc = "e_stats"
    /\ \/ /\ Drained
          /\ pc' = "contract"
          /\ total_queued' = Accumulate(total_queued, Cardinality(edge_frontier))
          /\ total_runtimes' = Accumulate(total_runtimes, BusyCycles)
          /\ total_lifetimes' = Accumulate(total_lifetimes, ElapsedCycles)
          /\ UNCHANGED <<retval, failed_op, faults>>
       \/ /\ CanFail
          /\ faults' = faults + 1
          /\ Return(RetvalOnExpandQueueLength, "GetQueueLength")
          /\ UNCHANGED totalVars
       \/ /\ CanFail
          /\ Drained
          /\ faults' = faults + 1
          /\ Return("expand_kernel_stats.Accumulate", "expand_kernel_stats.Accumulate")
          /\ total_queued' = Accumulate(total_queued, Cardinality(edge_frontier))
          /\ UNCHANGED <<total_runtimes, total_lifetimes>>
    /\ UNCHANGED <<problemVars, configVars, builderVars, handshakeVars, wordVars,
                   queue_index, mode, deviceVars, readVars, calls, clean, setup_ok,
                   setup_failed, alloc_count, prior_ok>>

\* ----------------------------------------------------- EnactFusedSearch
FusedDispatch(grid_size) == Dispatch("fused", 0, 0, d_iteration', grid_size)

AfterFusedLaunch == IF DEBUG THEN "f_sync" ELSE IF INSTRUMENT THEN "f_stats" ELSE "idle"

\* Lines 268-305 (and the entry point of lines 330-367): grid size, Setup
\* and the single launch.
EnactFusedSearch ==
    /\ MayCall
    /\ \E max_grid_size \in GridRequests :
        \/ NotTuned("fused")
        \/ /\ IsTuned(device_sm_version)
           /\ CallHistory("fused")
           /\ \E f \in SetupOutcomes :
                /\ SetupRuns(f)
                /\ f # NoFailure => CanFail
                /\ Setup(f)
                /\ retval' = SetupRetval(f)
                /\ failed_op' = IF f = NoFailure THEN "none" ELSE SetupOrder[f]
                /\ IF f = NoFailure
                     THEN /\ QueueHasRoom
                          /\ stream' = Append(stream,
                                 FusedDispatch(MaxGridSize(CTA_OCCUPANCY, max_grid_size)))
                          /\ pc' = AfterFusedLaunch
                          /\ clean' = FALSE
                     ELSE /\ pc' = "idle"
                          /\ UNCHANGED <<stream, clean>>
           /\ UNCHANGED <<problemVars, configVars, builderVars, queue_index, fk, observed>>

\* Line 307: the debug synchronization after the launch.
FusedSync ==
    /\ pc = "f_sync"
    /\ \/ /\ Drained
          /\ pc' = IF INSTRUMENT THEN "f_stats" ELSE "idle"
          /\ UNCHANGED <<retval, failed_op, faults>>
       \/ /\ CanFail
          /\ faults' = faults + 1
          /\ Return("cudaThreadSynchronize", "cudaThreadSynchronize")
    /\ UNCHANGED <<problemVars, configVars, builderVars, handshakeVars, wordVars, totalVars,
                   queue_index, mode, deviceVars, readVars, calls, clean, setup_ok,
                   setup_failed, alloc_count, prior_ok>>

\* Lines 309-316: the statistics of the launch.
FusedStats ==
    /\ pc = "f_stats"
    /\ \/ /\ Drained
          /\ pc' = "idle"
          /\ total_runtimes' = Accumulate(total_runtimes, BusyCycles)
          /\ total_lifetimes' = Accumulate(total_lifetimes, ElapsedCycles)
          /\ total_queued' = Accumulate(total_queued, Cardinality(visited_mask))
          /\ UNCHANGED <<retval, failed_op, faults>>
       \/ /\ CanFail
          /\ faults' = faults + 1
          /\ Return("expand_kernel_stats.Accumulate", "expand_kernel_stats.Accumulate")
          /\ UNCHANGED totalVars
    /\ UNCHANGED <<problemVars, configVars, builderVars, handshakeVars, wordVars,
                   queue_index, mode, deviceVars, readVars, calls, clean, setup_ok,
                   setup_failed, alloc_count, prior_ok>>

\* -------------------------------------------------------- GetStatistics
SearchDepth == iteration0 - 1

AvgDuty == IF total_lifetimes > 0 THEN <<total_runtimes, total_lifetimes>> ELSE <<0, 1>>

\* Line 236: cudaThreadSynchronize returns once the device is idle.
ThreadSynchronizeSkipped == TRUE

ThreadSynchronized == Drained

\* Lines 231-245.
GetStatistics ==
    /\ pc = "idle"
    /\ mode # "none"
    /\ iteration
    /\ ~stats.taken
    /\ ThreadSynchronized
    /\ stats' = [taken |-> TRUE, total_queued |-> total_queued,
                 search_depth |-> SearchDepth, avg_duty |-> AvgDuty]
    /\ UNCHANGED <<problemVars, configVars, builderVars, handshakeVars, wordVars, totalVars,
                   controlVars, deviceVars, observed, historyVars>>

\* The caller copies the labels of a search that returned Success out of the
\* problem's storage (a blocking copy).
ReadLabels ==
    /\ pc = "idle"
    /\ mode # "none"
    /\ retval = "Success"
    /\ ~clean
    /\ Drained
    /\ [variant |-> mode, labels |-> labels] \notin observed
    /\ observed' = observed \cup {[variant |-> mode, labels |-> labels]}
    /\ UNCHANGED <<problemVars, configVars, builderVars, handshakeVars, wordVars, totalVars,
                   controlVars, deviceVars, stats, historyVars>>

\* ------------------------------------------------------------ the device
\* The contraction kernel at the head of the stream runs to completion.
CompleteContract ==
    /\ HeadIs("contract")
    /\ LET k == Head(stream)
           new == Discovered(ContractInput(k.iteration))
       IN /\ labels' = Relabel(new, k.iteration)
          /\ visited_mask' = visited_mask \cup new
          /\ vertex_frontier' = KeysAfter(ContractKeys, 0, new)
          /\ edge_frontier' = KeysAfter(ContractKeys, 1, new)
          /\ done0' = SignalDone(k, new)
    /\ stream' = Pop(stream)
    /\ UNCHANGED <<graph, src, configVars, builderVars, handshakeVars, iteration0,
                   totalVars, controlVars, fk, readVars, historyVars>>

\* The expansion kernel at the head of the stream runs to completion.
CompleteExpand ==
    /\ HeadIs("expand")
    /\ LET out == ExpandOutput(d_keys(ExpandKeys.in))
       IN /\ vertex_frontier' = KeysAfter(ExpandKeys, 0, out)
          /\ edge_frontier' = KeysAfter(ExpandKeys, 1, out)
    /\ stream' = Pop(stream)
    /\ UNCHANGED <<graph, src, labels, visited_mask, configVars, builderVars,
                   handshakeVars, wordVars, totalVars, controlVars, fk, readVars,
                   historyVars>>

\* The problem's reset at the head of the stream runs to completion.
CompleteReset ==
    /\ HeadIs("reset")
    /\ labels' = NoLabels
    /\ visited_mask' = {}
    /\ stream' = Pop(stream)
    /\ UNCHANGED <<graph, src, vertex_frontier, edge_frontier, configVars, builderVars,
                   handshakeVars, wordVars, totalVars, controlVars, fk, readVars,
                   historyVars>>

\* Line 152 (reached from line 281 with the launch's grid size): the number
\* of arrivals the global barrier is set up for.
BarrierSizeOne(grid_size) == 1

BarrierSize(grid_size) == grid_size

\* Worker groups of the fused launch that hold a processor.
Resident(k) == IF k.grid_size <= ResidentLimit THEN k.grid_size ELSE ResidentLimit

\* The fused kernel starts its level-0 contraction.
FusedBegin ==
    /\ HeadIs("fused")
    /\ fk.phase = "none"
    /\ fk' = [phase |-> "contract", iteration |-> 0, todo |-> ContractInput(0), arrived |-> 0]
    /\ vertex_frontier' = {}
    /\ UNCHANGED <<graph, src, labels, visited_mask, edge_frontier, configVars, builderVars,
                   handshakeVars, wordVars, totalVars, controlVars, stream, readVars,
                   historyVars>>

\* A resident group that has not reached the barrier claims one element of
\* the phase's input and processes it.
FusedWork ==
    /\ HeadIs("fused")
    /\ fk.phase # "none"
    /\ fk.arrived < Resident(Head(stream))
    /\ \E x \in fk.todo :
        /\ fk' = [fk EXCEPT !.todo = @ \ {x}]
        /\ IF fk.phase = "contract"
             THEN LET new == Discovered({x})
                  IN /\ labels' = Relabel(new, fk.iteration)
                     /\ visited_mask' = visited_mask \cup new
                     /\ vertex_frontier' = vertex_frontier \cup new
                     /\ UNCHANGED edge_frontier
             ELSE /\ edge_frontier' = edge_frontier \cup ExpandOutput({x})
                  /\ UNCHANGED <<labels, visited_mask, vertex_frontier>>
    /\ UNCHANGED <<graph, src, configVars, builderVars, handshakeVars, wordVars, totalVars,
                   controlVars, stream, readVars, historyVars>>

\* A resident group finds nothing left to claim, or leaves the rest to the
\* groups still working, and waits at the global barrier.
FusedArrive ==
    /\ HeadIs("fused")
    /\ fk.phase # "none"
    /\ fk.arrived < Resident(Head(stream))
    /\ fk.todo = {} \/ fk.arrived + 1 < Resident(Head(stream))
    /\ fk' = [fk EXCEPT !.arrived = @ + 1]
    /\ UNCHANGED <<problemVars, configVars, builderVars, handshakeVars, wordVars, totalVars,
                   controlVars, stream, readVars, historyVars>>

\* Every group of the grid has arrived: the barrier opens.  After a
\* contraction that queued nothing the kernel ends; after an expansion the
\* level is complete and the iteration word is advanced through d_iteration.
FusedBarrier ==
    /\ HeadIs("fused")
    /\ fk.phase # "none"
    /\ fk.todo = {}
    /\ fk.arrived = BarrierSize(Head(stream).grid_size)
    /\ IF fk.phase = "contract"
         THEN IF vertex_frontier = {}
                THEN /\ fk' = NoFused
                     /\ stream' = Pop(stream)
                     /\ UNCHANGED <<edge_frontier, vertex_frontier, iteration0>>
                ELSE /\ fk' = [fk EXCEPT !.phase = "expand", !.todo = vertex_frontier,
                                         !.arrived = 0]
                     /\ edge_frontier' = {}
                     /\ UNCHANGED <<stream, vertex_frontier, iteration0>>
         ELSE /\ fk' = [phase |-> "contract", iteration |-> fk.iteration + 1,
                        todo |-> {e[2] : e \in edge_frontier}, arrived |-> 0]
              /\ vertex_frontier' = {}
              /\ iteration0' = IF Head(stream).flag THEN fk.iteration + 1 ELSE iteration0
              /\ UNCHANGED <<stream, edge_frontier>>
    /\ UNCHANGED <<graph, src, labels, visited_mask, configVars, builderVars, handshakeVars, done0,
                   totalVars, controlVars, readVars, historyVars>>

\* ------------------------------------------------------------------ Next
Control ==
    \/ ResetProblem
    \/ EnactIterativeSearch
    \/ IssueContract
    \/ ContractSync
    \/ ContractStats
    \/ Throttle
    \/ IssueExpand
    \/ ExpandSync
    \/ ExpandStats
    \/ EnactFusedSearch
    \/ FusedSync
    \/ FusedStats
    \/ GetStatistics
    \/ ReadLabels

Device ==
    \/ CompleteContract
    \/ CompleteExpand
    \/ CompleteReset
    \/ FusedBegin
    \/ FusedWork
    \/ FusedArrive
    \/ FusedBarrier

Next == Control \/ Device

Spec == Init /\ [][Next]_vars

\* The searches from vertex 0 of the directed paths and cycles through
\* vertices 0 .. n-1, one graph per number of levels.
Path(n) == {<<i, i + 1>> : i \in 0 .. (n - 2)}
Cycle(n) == Path(n) \cup {<<n - 1, 0>>}
PathGraphs == {Path(n) : n \in 1 .. MaxNodes} \cup {Cycle(n) : n \in 1 .. MaxNodes}

PathInit == Init /\ src = 0 /\ graph \in PathGraphs

PathSpec == PathInit /\ [][Next]_vars

\* The control thread keeps running and the device completes every
\* dispatch it can.
LiveSpec == Spec /\ WF_vars(Control) /\ WF_vars(Device)

PathLiveSpec == PathSpec /\ WF_vars(Control) /\ WF_vars(Device)

\* A caller that uses the fused variant only.
FusedControl ==
    \/ ResetProblem
    \/ EnactFusedSearch
    \/ FusedSync
    \/ FusedStats
    \/ GetStatistics
    \/ ReadLabels

FusedDevice ==
    \/ CompleteReset
    \/ FusedBegin
    \/ FusedWork
    \/ FusedArrive
    \/ FusedBarrier

FusedLiveSpec ==
    PathInit /\ [][FusedControl \/ FusedDevice]_vars
        /\ WF_vars(FusedControl) /\ WF_vars(FusedDevice)

\* ------------------------------------------------------ BuildRandomGraph
enactorVars == <<problemVars, configVars, handshakeVars, wordVars, totalVars, controlVars,
                 deviceVars, readVars, historyVars>>

NodeArgs == -1 .. MaxNodes
EdgeArgs == -1 .. MaxEdges
SrcArgs == -2 .. (MaxNodes + 1)

\* RandomNode(n): a node id below n.  With n = 0 the remainder it takes is
\* undefined: the process traps or some id is returned.
Trap == -1
RandomNode(n) == IF n > 0 THEN 0 .. (n - 1) ELSE {Trap, 0}

\* Lines 64-67: the size check.
InvalidSize == nodes < 0 \/ edges < 0

\* Line 101: the range check of a caller-supplied source.
InvalidSrcInclusive(s, n) == s < 0 \/ s >= n

InvalidSrc(s, n) == s < 0 \/ s > n

\* The value of the return statements of lines 66 and 104.
FailureCodeOne == 1

FailureCode == -1

\* The edges FromCoo receives: the selected ones, and their reverses when
\* the graph is undirected.
CooEdges ==
    {coo[i] : i \in 1 .. Len(coo)}
        \cup (IF undirected THEN {<<coo[i][2], coo[i][1]>> : i \in 1 .. Len(coo)} ELSE {})

BuildReturn(rv) == build_pc' = "returned" /\ build_retval' = rv

\* Lines 64-67.
BuildCheckSize ==
    /\ build_pc = "entry"
    /\ IF InvalidSize
         THEN BuildReturn(FailureCode)
         ELSE build_pc' = "select" /\ UNCHANGED build_retval
    /\ UNCHANGED <<nodes, edges, undirected, src_arg, build_src, coo, csr_graph, enactorVars>>

\* Lines 77-87: one pass of the edge-selection loop.
BuildSelectEdge ==
    /\ build_pc = "select"
    /\ Len(coo) < edges
    /\ \E row \in RandomNode(nodes), col \in RandomNode(nodes) :
          IF row = Trap \/ col = Trap
            THEN build_pc' = "trapped" /\ UNCHANGED coo
            ELSE coo' = Append(coo, <<row, col>>) /\ UNCHANGED build_pc
    /\ UNCHANGED <<nodes, edges, undirected, src_arg, build_src, csr_graph, build_retval,
                   enactorVars>>

\* Lines 94-95: the conversion to CSR.
BuildFromCoo ==
    /\ build_pc = "select"
    /\ Len(coo) = edges
    /\ csr_graph' = [nodes |-> nodes, edges |-> CooEdges, allocated |-> TRUE]
    /\ build_pc' = "source"
    /\ UNCHANGED <<nodes, edges, undirected, src_arg, build_src, coo, build_retval,
                   enactorVars>>

\* Lines 97-107: the source is chosen or verified, and the call returns.
BuildCheckSource ==
    /\ build_pc = "source"
    /\ IF build_src = -1
         THEN \E r \in RandomNode(csr_graph.nodes) :
                IF r = Trap
                  THEN build_pc' = "trapped" /\ UNCHANGED <<build_src, build_retval, csr_graph>>
                  ELSE build_src' = r /\ BuildReturn(0) /\ UNCHANGED csr_graph
         ELSE IF InvalidSrc(build_src, csr_graph.nodes)
                THEN /\ csr_graph' = NoCsrGraph
                     /\ BuildReturn(FailureCode)
                     /\ UNCHANGED build_src
                ELSE BuildReturn(0) /\ UNCHANGED <<build_src, csr_graph>>
    /\ UNCHANGED <<nodes, edges, undirected, src_arg, coo, enactorVars>>

BuildRandomGraph ==
    \/ BuildCheckSize
    \/ BuildSelectEdge
    \/ BuildFromCoo
    \/ BuildCheckSource

\* One call of BuildRandomGraph on every argument list within the bounds;
\* the enactor is not used.
BuildInit ==
    /\ nodes \in NodeArgs /\ edges \in EdgeArgs /\ undirected \in BOOLEAN
    /\ src_arg \in SrcArgs /\ build_src = src_arg
    /\ coo = <<>> /\ csr_graph = NoCsrGraph
    /\ build_pc = "entry" /\ build_retval = 0
    /\ graph = {} /\ src = 0
    /\ labels = NoLabels /\ visited_mask = {} /\ vertex_frontier = {} /\ edge_frontier = {}
    /\ INSTRUMENT = FALSE /\ DEBUG = FALSE /\ device_sm_version = MinSmVersion
    /\ done = FALSE /\ d_done = FALSE /\ throttle_event = "uncreated"
    /\ iteration = FALSE /\ d_iteration = FALSE
    /\ done0 = 0 /\ iteration0 = 0
    /\ total_runtimes = 0 /\ total_lifetimes = 0 /\ total_queued = 0
    /\ pc = "idle" /\ retval = "Success" /\ queue_index = 0 /\ mode = "none"
    /\ stream = <<>> /\ fk = NoFused
    /\ stats = NoStats /\ observed = {}
    /\ calls = 0 /\ faults = 0 /\ clean = TRUE /\ failed_op = "none"
    /\ setup_ok = FALSE /\ setup_failed = FALSE
    /\ alloc_count = [done |-> 0, iteration |-> 0, event |-> 0]
    /\ prior_ok = FALSE

BuildSpec == BuildInit /\ [][BuildRandomGraph]_vars

\* ------------------------------------------------------------ reference
\* Vertices within k hops of the source.
RECURSIVE Within(_)
Within(k) ==
    IF k = 0 THEN {src}
    ELSE LET W == Within(k - 1)
         IN W \cup {v \in Nodes : \E u \in W : <<u, v>> \in graph}

HopCount(v) ==
    IF v \notin Within(MaxNodes) THEN Unvisited
    ELSE CHOOSE k \in 0 .. MaxNodes : v \in Within(k) /\ (k = 0 \/ v \notin Within(k - 1))

BfsLabels == [v \in Nodes |-> HopCount(v)]

MaxLabel(l) == CHOOSE m \in {l[v] : v \in Nodes} : \A v \in Nodes : l[v] <= m

\* An iterative search has returned Success and the device is idle.
IterativeSearchComplete ==
    pc = "idle" /\ mode = "iterative" /\ retval = "Success" /\ ~clean /\ Drained

\* ---------------------------------------------------------------- claims

\* C1: after EnactIterativeSearch has returned Success and all dispatched
\* work has completed, every vertex reachable from the source is labelled
\* with its shortest hop count and every other vertex is unvisited.
C1_LabelsAreHopCounts == IterativeSearchComplete => labels = BfsLabels

\* C2: after an iterative search the search depth GetStatistics reports
\* equals the largest label assigned, under every interleaving (stated for
\* the first search of an enactor on which no operation failed).
C2_DepthIsMaxLabel ==
    (stats.taken /\ IterativeSearchComplete /\ calls = 1 /\ faults = 0)
        => stats.search_depth = MaxLabel(labels)

\* The depths a search on a freshly constructed enactor reports.
FreshDepths == MaxLabel(BfsLabels) .. (MaxLabel(BfsLabels) + 2)

\* C3: a search re-invoked after an earlier search has returned, on a
\* problem the caller has reset, produces the labels and a search depth of
\* a search on a fresh enactor, whatever of the earlier search's
\* dispatches is still outstanding (stated for runs in which no operation
\* failed).
C3_ReinvokedSearchAsFresh ==
    (IterativeSearchComplete /\ prior_ok /\ faults = 0)
        => (labels = BfsLabels /\ SearchDepth \in FreshDepths)

C5_FailureIsReturned == (pc = "idle" /\ failed_op # "none") => retval # "Success"

\* C6: no fused launch is dispatched with more worker groups than the
\* device holds resident.
C6_NoOversubscribedLaunch ==
    \A i \in 1 .. Len(stream) :
        stream[i].kind = "fused" => stream[i].grid_size <= ResidentLimit

\* C7: on a device version below 200 either entry point returns
\* InvalidConfiguration, dispatches nothing and runs no part of Setup.
C7_UntunedRejected ==
    [][(calls' # calls /\ device_sm_version < 200)
        => /\ pc' = "idle"
           /\ retval' = "InvalidConfiguration"
           /\ UNCHANGED <<stream, handshakeVars, wordVars, totalVars, alloc_count>>]_vars

C7_Witness ==
    /\ calls = 2
    /\ mode = "fused"
    /\ device_sm_version < 200
    /\ retval = "InvalidConfiguration"
    /\ ~done /\ ~iteration /\ Drained

\* C8: the queue index starts at 0 and grows by one per phase: a contract
\* dispatch of level N carries queue index 2N, an expand dispatch of level N
\* carries 2N+1, and between dispatches the control thread's queue index is
\* the one of the next phase; below the collapsed level it never decreases
\* within a search.
QueueIndexTracksLevel ==
    /\ \A i \in 1 .. Len(stream) :
        /\ stream[i].kind = "contract" => stream[i].queue_index = 2 * stream[i].iteration
        /\ stream[i].kind = "expand" => stream[i].queue_index = 2 * stream[i].iteration + 1
    /\ pc \in {"contract", "c_sync", "e_stats"} => queue_index = 2 * iteration0
    /\ pc \in {"c_stats", "throttle", "expand", "e_sync"} => queue_index = 2 * iteration0 + 1

C8_QueueIndex ==
    /\ []QueueIndexTracksLevel
    /\ [][(pc # "idle" /\ iteration0 < MaxLevel)
            => queue_index' \in {queue_index, queue_index + 1}]_vars

C8_Witness ==
    \E i \in 1 .. Len(stream) :
        stream[i].kind = "expand" /\ stream[i].iteration = 1 /\ stream[i].queue_index = 3

\* C9: every label array read back after a search that returned Success,
\* fused or iterative, is the same.
C9_SameLabels == \A a, b \in observed : a.labels = b.labels

\* C10: a Setup that succeeds leaves iteration, the totals and the
\* completion flag at 0, and as long as every Setup of the enactor has
\* succeeded each handshake resource has been allocated exactly once.
C10_SetupResets ==
    [][(calls' # calls /\ setup_ok' /\ IsTuned(device_sm_version))
        => /\ iteration0' = 0 /\ done0' = 0
           /\ total_runtimes' = 0 /\ total_lifetimes' = 0 /\ total_queued' = 0
           /\ done' /\ iteration'
           /\ ~setup_failed' => alloc_count' = [done |-> 1, iteration |-> 1, event |-> 1]]_vars

C10_Witness ==
    /\ calls = 2 /\ prior_ok /\ setup_ok /\ INSTRUMENT
    /\ pc = "contract" /\ queue_index = 0
    /\ iteration0 = 0 /\ done0 = 0 /\ total_lifetimes = 0
    /\ alloc_count = [done |-> 1, iteration |-> 1, event |-> 1]

\* C11: GetStatistics reads only when no dispatch of the enactor is pending
\* or running, and what it returned stays the final value of the search:
\* total_queued, iteration[0] - 1 and the duty ratio (0 when no elapsed
\* cycles were recorded).
StatisticsAreFinal ==
    stats.taken =>
        /\ stats.total_queued = total_queued
        /\ stats.search_depth = iteration0 - 1
        /\ stats.avg_duty = AvgDuty
        /\ total_lifetimes = 0 => stats.avg_duty[1] = 0

C11_StatisticsAfterCompletion ==
    /\ []StatisticsAreFinal
    /\ [][(~stats.taken /\ stats'.taken) => (Drained /\ fk = NoFused)]_vars

C11_Witness ==
    /\ stats.taken /\ mode = "fused" /\ ~DEBUG /\ ~INSTRUMENT
    /\ stats.search_depth = 2 /\ stats.avg_duty[1] = 0

\* A call of BuildRandomGraph has returned on a size it accepts.
BuildReturned == build_pc = "returned" /\ ~InvalidSize

\* C12: a caller-supplied source other than -1 that is no vertex id of the
\* graph makes the call fail and free the graph; a source that is a vertex
\* id makes it succeed with the source unchanged; the source -1 is replaced
\* by a vertex id (stated where the graph has one).
C12_SourceVerified ==
    BuildReturned =>
        /\ (src_arg # -1 /\ InvalidSrcInclusive(src_arg, nodes))
              => (build_retval # 0 /\ ~csr_graph.allocated)
        /\ (src_arg \in 0 .. (nodes - 1))
              => (build_retval = 0 /\ build_src = src_arg)
        /\ (src_arg = -1 /\ nodes > 0) => build_src \in 0 .. (nodes - 1)

\* C13: a call that fails (a negative size or a source out of range)
\* returns 1 and a call that succeeds returns 0.
C13_ReturnsOneOnFailure ==
    build_pc = "returned" =>
        build_retval =
            IF InvalidSize \/ (src_arg # -1 /\ InvalidSrcInclusive(src_arg, nodes))
              THEN FailureCodeOne ELSE 0

\* The first search of an enactor, with no failed operation.
FirstSearch == mode = "iterative" /\ calls = 1 /\ faults = 0

\* Levels of the contract dispatches that have not completed.
PendingContractLevels ==
    {stream[i].iteration : i \in {j \in 1 .. Len(stream) : stream[j].kind = "contract"}}

\* Every contract dispatch below level n has completed.
ContractsCompleteBelow(n) == \A l \in PendingContractLevels : l >= n

\* The level of the contract dispatch that sets the completion flag: the
\* first one to find nothing new.
FlagLevel == MaxLabel(BfsLabels) + 1

\* C14: the control thread never has dispatches issued for more than one
\* level beyond the latest level whose contract dispatch has completed
\* (while a dispatch of level n is pending every contract dispatch below
\* level n has completed), and the loop exits at most one level after the level of the
\* contract dispatch that sets the completion flag.
C14_OneLevelAhead ==
    FirstSearch =>
        /\ \A i \in 1 .. Len(stream) : ContractsCompleteBelow(stream[i].iteration)
        /\ IterativeSearchComplete => iteration0 <= FlagLevel + 1

\* Position of a traversal dispatch in the sequence contract 0, expand 0,
\* contract 1, expand 1, ...
PhaseOrder(k) == 2 * k.iteration + (IF k.kind = "expand" THEN 1 ELSE 0)

IsPhase(k) == k.kind \in {"contract", "expand"}

\* Dispatches i < j of the stream belong to one search: the caller's reset
\* is not between them.
SameSearch(i, j) == \A r \in i .. j : stream[r].kind # "reset"

\* Stream positions of the dispatches of the search in progress.
CurrentSearch == {j \in 1 .. Len(stream) : IsPhase(stream[j]) /\ SameSearch(j, Len(stream))}

\* Position of the next dispatch the control thread issues.
NextPhaseOrder ==
    2 * iteration0 + (CASE pc \in {"contract", "e_stats"} -> 0
                        [] pc \in {"c_sync", "c_stats", "throttle", "expand"} -> 1
                        [] OTHER -> 2)

\* The device runs the stream in order, so the pending dispatches of one
\* search are in phase order and precede the dispatch issued next.
PhasesInOrder ==
    /\ \A i, j \in 1 .. Len(stream) :
          (i < j /\ IsPhase(stream[i]) /\ IsPhase(stream[j]) /\ SameSearch(i, j)
             /\ stream[j].iteration < MaxLevel)
            => PhaseOrder(stream[i]) < PhaseOrder(stream[j])
    /\ (pc # "idle" /\ mode = "iterative" /\ iteration0 < MaxLevel)
          => \A j \in CurrentSearch : PhaseOrder(stream[j]) < NextPhaseOrder

\* C15: phases execute strictly in order in both variants.  Iterative: the
\* pending dispatches are in the order contract N, expand N, contract N+1
\* and only the first of them executes; while an expand is the executing
\* dispatch no label, visited bit or vertex-frontier entry is written.
\* Fused: the kernel changes phase or level only when the phase's input is
\* used up and every group is at the barrier, and the expand phase writes
\* no label, visited bit or vertex-frontier entry.
C15_PhasesStrictlyOrdered ==
    /\ []PhasesInOrder
    /\ [][(HeadIs("expand") \/ (HeadIs("fused") /\ fk.phase = "expand" /\ fk'.phase = "expand"))
            => UNCHANGED <<labels, visited_mask, vertex_frontier>>]_vars
    /\ [][(HeadIs("contract") \/ (HeadIs("fused") /\ fk.phase = "contract" /\ fk'.phase = "contract"))
            => UNCHANGED edge_frontier]_vars
    /\ [][(fk.phase # "none" /\ <<fk'.phase, fk'.iteration>> # <<fk.phase, fk.iteration>>)
            => (fk.todo = {} /\ fk.arrived = Head(stream).grid_size)]_vars

C15_Witness ==
    /\ Len(stream) >= 3
    /\ stream[1].kind = "expand" /\ stream[1].iteration = 0
    /\ stream[2].kind = "contract" /\ stream[2].iteration = 1
    /\ stream[3].kind = "expand" /\ stream[3].iteration = 1
    /\ vertex_frontier # {}

\* The steps of the iterative loop in program order: Contract (with its
\* debug synchronization and statistics), Throttle and done check, Expand
\* and Advance (with its debug synchronization and statistics).
LoopOrder ==
    {<<"contract", "c_sync">>, <<"contract", "c_stats">>, <<"contract", "throttle">>,
     <<"c_sync", "c_stats">>, <<"c_sync", "throttle">>, <<"c_stats", "throttle">>,
     <<"throttle", "expand">>,
     <<"expand", "e_sync">>, <<"expand", "e_stats">>, <<"expand", "contract">>,
     <<"e_sync", "e_stats">>, <<"e_sync", "contract">>, <<"e_stats", "contract">>}

\* The kind of the dispatch a step appends to the stream, "none" if it
\* appends no dispatch.
Issued ==
    IF Len(stream') > Len(stream) /\ stream'[Len(stream')].kind # "event"
      THEN stream'[Len(stream')].kind ELSE "none"

\* C16: the loop runs Contract, Throttle, done check, Expand, Advance.  A
\* contract is issued only at the Contract step and an expand only at the
\* Expand step, which is entered only from the done check with the flag
\* read as clear; when the flag is read as set the search returns from the
\* done check with no dispatch issued and with the iteration counter and
\* the queue index as they were, and nothing is dispatched until the next
\* call.
C16_LoopOrder ==
    /\ [][(mode = "iterative" /\ pc # "idle" /\ pc' \notin {pc, "idle"})
            => <<pc, pc'>> \in LoopOrder]_vars
    /\ [][(Issued = "contract" => pc = "contract") /\ (Issued = "expand" => pc = "expand")]_vars
    /\ [][(pc = "throttle" /\ pc' = "expand") => done0 = 0]_vars
    /\ [][(pc = "throttle" /\ pc' # pc /\ done0 # 0)
            => (pc' = "idle" /\ Issued = "none" /\ UNCHANGED <<iteration0, queue_index>>)]_vars
    /\ [][(pc = "idle" /\ pc' = "idle" /\ calls' = calls) => Issued \in {"none", "reset"}]_vars

C16_Witness ==
    /\ IterativeSearchComplete /\ FirstSearch
    /\ done0 = 1 /\ iteration0 = 2 /\ queue_index = 5
    /\ labels = BfsLabels /\ labels[1] = 1

\* A fused launch that fits the device is dispatched and not finished.
FittingLaunchOutstanding ==
    \E i \in 1 .. Len(stream) :
        stream[i].kind = "fused" /\ stream[i].grid_size <= ResidentLimit

\* An oversubscribed fused launch is the executing dispatch.
OversubscribedRunning == HeadIs("fused") /\ Head(stream).grid_size > ResidentLimit

\* C17: a fused launch of no more worker groups than the device holds
\* resident passes every barrier and finishes; a launch of more groups
\* never finishes: its resident groups end up waiting at the barrier for
\* groups that are never scheduled.
C17_BarrierProgress ==
    /\ FittingLaunchOutstanding ~> ~FusedOutstanding
    /\ [][OversubscribedRunning => (HeadIs("fused"))']_vars

C17_Witness ==
    /\ OversubscribedRunning
    /\ fk.phase = "contract" /\ fk.todo = {} /\ fk.arrived = ResidentLimit
    /\ labels[src] = 0

\* The level of the phase the device is executing: half the queue index of
\* an iterative dispatch, the kernel's own level in a fused launch.
ExecutingLevel ==
    IF HeadIs("fused") THEN fk.iteration ELSE Head(stream).queue_index \div 2

\* C18: apart from the caller's reset between searches, a visited bit once
\* set stays set and a label is written at most once: only the label of a
\* vertex not yet visited changes, from the unvisited sentinel to the level
\* of the contract that discovers it, together with its visited bit; a
\* later contract, speculatively issued ones included, rewrites nothing.
C18_WrittenOnce ==
    [][~HeadIs("reset") =>
         /\ visited_mask \subseteq visited_mask'
         /\ \A v \in Nodes :
              labels'[v] # labels[v] =>
                 /\ labels[v] = Unvisited
                 /\ v \notin visited_mask /\ v \in visited_mask'
                 /\ stream # <<>> /\ labels'[v] = ExecutingLevel]_vars

C18_Witness ==
    /\ FirstSearch /\ pc = "idle" /\ Drained
    /\ graph = Cycle(2)
    /\ iteration0 = 4 /\ done0 = 1
    /\ labels[0] = 0 /\ labels[1] = 1 /\ visited_mask = {0, 1}

\* A step in which the device retires the dispatch at the head of the stream.
Retires(kind) == HeadIs(kind) /\ stream' = Pop(stream)

\* C19: the frontier queues are used ping-pong and exclusively.  A
\* contract dispatch reads the edge frontier and writes only the vertex
\* frontier, an expand dispatch reads the vertex frontier and writes only
\* the edge frontier, whatever is queued behind it; an issue by the host
\* touches neither queue; and inside the fused kernel the queue a phase
\* reads is not written until the phase has ended.
C19_PingPongExclusive ==
    /\ [][Retires("contract") =>
             /\ edge_frontier' = edge_frontier
             /\ vertex_frontier' = Discovered(IF Head(stream).iteration = 0
                                                THEN {src}
                                                ELSE {e[2] : e \in edge_frontier})]_vars
    /\ [][Retires("expand") =>
             /\ vertex_frontier' = vertex_frontier
             /\ edge_frontier' = {e \in graph : e[1] \in vertex_frontier}]_vars
    /\ [][Len(stream') > Len(stream) =>
             UNCHANGED <<vertex_frontier, edge_frontier>>]_vars
    /\ [][(fk.phase = "contract" /\ fk'.phase = "contract") =>
             edge_frontier' = edge_frontier]_vars
    /\ [][(fk.phase = "expand" /\ fk'.phase = "expand") =>
             vertex_frontier' = vertex_frontier]_vars

C19_Witness ==
    /\ FirstSearch
    /\ HeadIs("expand") /\ Len(stream) >= 3
    /\ vertex_frontier = {1} /\ edge_frontier = {<<0, 1>>}

\* EnactIterativeSearch has returned Success to its caller.
ReturnedSuccess == pc = "idle" /\ mode = "iterative" /\ retval = "Success" /\ ~clean

\* C20: when EnactIterativeSearch has returned Success every vertex
\* reachable from the source carries a label, and from then on, until the
\* caller resets the problem or calls again, no dispatch that was pending
\* or running at the return writes a label or a visited bit.
C20_FinalAtReturn ==
    /\ [](ReturnedSuccess => \A v \in Nodes : BfsLabels[v] # Unvisited => labels[v] # Unvisited)
    /\ [][(ReturnedSuccess /\ ReturnedSuccess' /\ ~HeadIs("reset"))
            => UNCHANGED <<labels, visited_mask>>]_vars

\* The dispatch at the head of the stream was issued by an earlier search:
\* the caller's reset is queued behind it.
StaleDispatchAtHead ==
    /\ stream # <<>>
    /\ IsPhase(Head(stream))
    /\ \E r \in 2 .. Len(stream) : stream[r].kind = "reset"

\* The search called after the caller's reset has run Setup to the end.
LaterSearchSetUp == setup_ok /\ (pc # "idle" \/ ~clean)

\* Contracts of the search in progress that have not executed yet.
CurrentContractsPending ==
    Cardinality({j \in CurrentSearch : stream[j].kind = "contract"})

\* C21: a completion flag the control thread finds set at the throttle was
\* written by a dispatch of the search in progress, so at least one of its
\* contracts has executed; and once the later search's Setup has cleared
\* the flag, no dispatch of an earlier search writes it.
C21_FlagFromSameSearch ==
    /\ []((pc = "throttle" /\ mode = "iterative" /\ setup_ok /\ done0 # 0
            /\ iteration0 < MaxLevel)
           => CurrentContractsPending < iteration0 + 1)
    /\ [][(Retires("contract") /\ StaleDispatchAtHead /\ LaterSearchSetUp)
            => done0' = done0]_vars

\* Lines 216-222 of the destructor: the event is destroyed when the host
\* pointer done is non-NULL.
DestructorDestroysEvent == done

\* A dispatch in the stream was given an unmapped word: d_done for a
\* contract or expand, d_iteration for a fused launch.
DispatchedUnmapped ==
    \E i \in 1 .. Len(stream) :
        stream[i].kind \in {"contract", "expand", "fused"} /\ ~stream[i].flag

\* C22: after any sequence of Setup calls, failing ones included, the
\* handshake resources are all-or-nothing: a non-NULL done has a valid
\* device mapping and a created throttle event, a non-NULL iteration has a
\* valid device mapping; no search dispatches with an unmapped flag, none
\* waits on an event that was not created, and the destructor would destroy
\* only a created event.
C22_HandshakeAllOrNothing ==
    /\ done => (d_done /\ throttle_event = "created")
    /\ iteration => d_iteration
    /\ ~DispatchedUnmapped
    /\ (pc = "throttle" /\ setup_ok) => throttle_event = "created"
    /\ DestructorDestroysEvent => throttle_event = "created"

====
